---- MODULE Spec2Model ----
(***************************************************************************)
(* Model of ubuntu_manifest_archive_diff/cli.py: one run of the command    *)
(* ubuntu_manifest_archive_diff (parse the manifest, resolve the archive   *)
(* versions through Launchpad, resolve the snap revisions through the snap *)
(* store, write the archive manifest).                                     *)
(*                                                                         *)
(* Python strings are sequences of one-character strings, so that `in`,    *)
(* strip(), split(), replace() and the f-strings are computed as the code  *)
(* computes them.                                                          *)
(***************************************************************************)
EXTENDS Integers, Sequences, FiniteSets, TLC

VARIABLES
    manifest,                 \* the lines of --manifest-filename
    architecture,             \* --architecture
    ppas,                     \* list(ppas), the --ppa options
    file_before,              \* the file named by --archive-manifest-filename, before the run
    file,                     \* the same file, now
    pc,                       \* position of the run in the command
    failure,                  \* the stage whose exception ended the run
    line_idx,                 \* position of `for line in manifest`
    binary_package_names,
    snap_package_names,
    calls,                    \* the remote calls issued so far, in order
    response,                 \* what the last remote call answered
    pkg_idx,                  \* position of `for binary_package_name in ...`
    binary_package_name,      \* the loop variable after line 142
    ppa_idx,                  \* position of `for ppa in ppas`
    pocket_idx,               \* position of `for pocket in ARCHIVE_POCKETS`
    binary_package_versions_found_in_archive,
    manifest_archive_versions,
    snap_idx,                 \* position of the loop of _get_snapstore_versions
    manifest_snapstore_versions,
    snap_responses,           \* what the snap store answered, one per request
    write_idx,                \* position of the two loops of the writer
    twin_manifest,            \* a second manifest, parsed by a second run
    twin_pc,
    twin_idx,
    twin_binary_package_names,
    twin_snap_package_names

parse_vars == <<manifest, pc, failure, line_idx, binary_package_names, snap_package_names>>
input_vars == <<architecture, ppas, file_before>>
remote_vars == <<calls, response>>
archive_vars == <<pkg_idx, binary_package_name, ppa_idx, pocket_idx,
                  binary_package_versions_found_in_archive, manifest_archive_versions>>
snap_vars == <<snap_idx, manifest_snapstore_versions, snap_responses>>
write_vars == <<file, write_idx>>
twin_vars == <<twin_manifest, twin_pc, twin_idx, twin_binary_package_names,
               twin_snap_package_names>>
vars == <<parse_vars, input_vars, remote_vars, archive_vars, snap_vars, write_vars, twin_vars>>

-----------------------------------------------------------------------------
(* Bounds of the model. *)

MaxLines == 2
MaxPpas == 1

-----------------------------------------------------------------------------
(* Python str operations. *)

Whitespace == {" ", "\t", "\n"}

\* sub in s
Contains(s, sub) ==
    \E i \in 1..(Len(s) - Len(sub) + 1) : SubSeq(s, i, i + Len(sub) - 1) = sub

\* s.replace(old, new): every non-overlapping occurrence, left to right
RECURSIVE Replace(_, _, _)
Replace(s, old, new) ==
    IF Len(s) < Len(old) THEN s
    ELSE IF SubSeq(s, 1, Len(old)) = old
         THEN new \o Replace(SubSeq(s, Len(old) + 1, Len(s)), old, new)
         ELSE <<Head(s)>> \o Replace(Tail(s), old, new)

RECURSIVE LStrip(_)
LStrip(s) == IF s # <<>> /\ Head(s) \in Whitespace THEN LStrip(Tail(s)) ELSE s

RECURSIVE RStrip(_)
RStrip(s) ==
    IF s # <<>> /\ s[Len(s)] \in Whitespace THEN RStrip(SubSeq(s, 1, Len(s) - 1)) ELSE s

\* s.strip()
Strip(s) == RStrip(LStrip(s))

RECURSIVE SplitFrom(_, _, _)
SplitFrom(s, word, fields) ==
    IF s = <<>> THEN (IF word = <<>> THEN fields ELSE Append(fields, word))
    ELSE IF Head(s) \in Whitespace
         THEN SplitFrom(Tail(s), <<>>, IF word = <<>> THEN fields ELSE Append(fields, word))
         ELSE SplitFrom(Tail(s), Append(word, Head(s)), fields)

\* s.split(): the maximal runs of non-whitespace
Split(s) == SplitFrom(s, <<>>, <<>>)

RECURSIVE SplitOnFrom(_, _, _, _)
SplitOnFrom(s, sep, word, fields) ==
    IF s = <<>> THEN Append(fields, word)
    ELSE IF Head(s) = sep
         THEN SplitOnFrom(Tail(s), sep, <<>>, Append(fields, word))
         ELSE SplitOnFrom(Tail(s), sep, Append(word, Head(s)), fields)

\* s.split(sep) for a one-character sep: empty fields are kept
SplitOn(s, sep) == SplitOnFrom(s, sep, <<>>, <<>>)

DigitChars == <<"0", "1", "2", "3", "4", "5", "6", "7", "8", "9">>

IsDigit(c) == \E d \in 1..Len(DigitChars) : DigitChars[d] = c

DigitValue(c) == (CHOOSE d \in 1..Len(DigitChars) : DigitChars[d] = c) - 1

\* str(n) of a non-negative int, as the f-string of line 278 formats the revision
RECURSIVE IntToStr(_)
IntToStr(n) ==
    IF n < Len(DigitChars) THEN <<DigitChars[n + 1]>>
    ELSE IntToStr(n \div Len(DigitChars)) \o <<DigitChars[(n % Len(DigitChars)) + 1]>>

\* int(s) of a string of digits
RECURSIVE StrToInt(_)
StrToInt(s) ==
    IF s = <<>> THEN 0
    ELSE StrToInt(SubSeq(s, 1, Len(s) - 1)) * Len(DigitChars) + DigitValue(s[Len(s)])

-----------------------------------------------------------------------------
(* debian_support.version_compare, as python-debian computes it on two     *)
(* version strings [epoch:]upstream_version[-debian_revision].             *)

LowerChars == <<"a", "b", "c", "d", "e", "f", "g", "h", "i", "j", "k", "l", "m",
                "n", "o", "p", "q", "r", "s", "t", "u", "v", "w", "x", "y", "z">>

IsAlpha(c) == \E k \in 1..Len(LowerChars) : LowerChars[k] = c

\* ord(c) of the characters a version string is made of
Ord(c) ==
    IF IsAlpha(c) THEN 96 + (CHOOSE k \in 1..Len(LowerChars) : LowerChars[k] = c)
    ELSE CASE c = "+" -> 43
           [] c = "-" -> 45
           [] c = "." -> 46
           [] c = ":" -> 58
           [] c = "~" -> 126

\* the sort weight of one character: ~ before everything, then the end of the
\* string and the digits, then letters, then the rest
Order(c) ==
    IF c = "~" THEN -1
    ELSE IF IsDigit(c) THEN DigitValue(c) + 1
    ELSE IF IsAlpha(c) THEN Ord(c)
    ELSE Ord(c) + 256

FirstIndex(s, c) == IF \E i \in 1..Len(s) : s[i] = c
                    THEN CHOOSE i \in 1..Len(s) : s[i] = c /\ \A k \in 1..(i - 1) : s[k] # c
                    ELSE 0

LastIndex(s, c) == IF \E i \in 1..Len(s) : s[i] = c
                   THEN CHOOSE i \in 1..Len(s) : s[i] = c /\ \A k \in (i + 1)..Len(s) : s[k] # c
                   ELSE 0

\* the three groups of the version pattern; <<>> stands for an absent group
Version(s) ==
    LET colon == FirstIndex(s, ":")
        has_epoch == /\ colon > 1
                     /\ colon < Len(s)
                     /\ \A k \in 1..(colon - 1) : IsDigit(s[k])
        rest == IF has_epoch THEN SubSeq(s, colon + 1, Len(s)) ELSE s
        hyphen == LastIndex(rest, "-")
        has_revision == /\ hyphen > 1
                        /\ hyphen < Len(rest)
                        /\ \A k \in (hyphen + 1)..Len(rest) : rest[k] # ":"
    IN  [epoch |-> IF has_epoch THEN SubSeq(s, 1, colon - 1) ELSE <<>>,
         upstream_version |-> IF has_revision THEN SubSeq(rest, 1, hyphen - 1) ELSE rest,
         debian_revision |-> IF has_revision THEN SubSeq(rest, hyphen + 1, Len(rest))
                             ELSE <<>>]

OrZero(s) == IF s = <<>> THEN <<"0">> ELSE s

\* three-way comparison of two integers
Cmp(a, b) == IF a < b THEN -1 ELSE IF a > b THEN 1 ELSE 0

\* the maximal runs of digits and of non-digits of s, in order
RECURSIVE DigitRunsFrom(_, _, _)
DigitRunsFrom(s, run, runs) ==
    IF s = <<>> THEN (IF run = <<>> THEN runs ELSE Append(runs, run))
    ELSE IF run = <<>> \/ (IsDigit(Head(s)) <=> IsDigit(run[1]))
         THEN DigitRunsFrom(Tail(s), Append(run, Head(s)), runs)
         ELSE DigitRunsFrom(Tail(s), <<Head(s)>>, Append(runs, run))

DigitRuns(s) == DigitRunsFrom(s, <<>>, <<>>)

AllDigits(s) == s # <<>> /\ \A k \in 1..Len(s) : IsDigit(s[k])

\* character by character on the sort weights, the shorter string padded with 0
RECURSIVE VersionCmpString(_, _)
VersionCmpString(va, vb) ==
    IF va = <<>> /\ vb = <<>> THEN 0
    ELSE LET a == IF va = <<>> THEN 0 ELSE Order(Head(va))
             b == IF vb = <<>> THEN 0 ELSE Order(Head(vb))
         IN  IF a # b THEN Cmp(a, b)
             ELSE VersionCmpString(IF va = <<>> THEN va ELSE Tail(va),
                                   IF vb = <<>> THEN vb ELSE Tail(vb))

\* run by run, the shorter list padded with "0"
RECURSIVE VersionCmpRuns(_, _)
VersionCmpRuns(la, lb) ==
    IF la = <<>> /\ lb = <<>> THEN 0
    ELSE LET a == IF la = <<>> THEN <<"0">> ELSE Head(la)
             b == IF lb = <<>> THEN <<"0">> ELSE Head(lb)
             res == IF AllDigits(a) /\ AllDigits(b)
                    THEN Cmp(StrToInt(a), StrToInt(b))
                    ELSE VersionCmpString(a, b)
         IN  IF res # 0 THEN res
             ELSE VersionCmpRuns(IF la = <<>> THEN la ELSE Tail(la),
                                 IF lb = <<>> THEN lb ELSE Tail(lb))

VersionCmpPart(va, vb) == VersionCmpRuns(DigitRuns(va), DigitRuns(vb))

\* debian_support.version_compare(a, b): negative, zero or positive
version_compare(a, b) ==
    LET va == Version(a)
        vb == Version(b)
        by_epoch == Cmp(StrToInt(OrZero(va.epoch)), StrToInt(OrZero(vb.epoch)))
        by_upstream == VersionCmpPart(OrZero(va.upstream_version),
                                      OrZero(vb.upstream_version))
    IN  IF by_epoch # 0 THEN by_epoch
        ELSE IF by_upstream # 0 THEN by_upstream
        ELSE VersionCmpPart(OrZero(va.debian_revision), OrZero(vb.debian_revision))

NothingPublished == <<"0", ".", "0", ".", "0">>

\* lines 176-179: the scan that keeps a version only when it beats max_version
RECURSIVE MaxVersionFrom(_, _)
MaxVersionFrom(versions, max_version) ==
    IF versions = <<>> THEN max_version
    ELSE MaxVersionFrom(Tail(versions),
                        IF version_compare(Head(versions), max_version) > 0
                        THEN Head(versions) ELSE max_version)

MaxVersion(versions) == MaxVersionFrom(versions, NothingPublished)

-----------------------------------------------------------------------------
(* The inputs of the model: manifest lines, architectures, PPAs, and what  *)
(* Launchpad and the snap store may answer.                                *)

Amd64 == <<"a", "m", "d", "6", "4">>
Bash == <<"b", "a", "s", "h">>
Core == <<"c", "o", "r", "e">>
Lxd == <<"l", "x", "d">>
Stable == <<"s", "t", "a", "b", "l", "e">>
Edge == <<"e", "d", "g", "e">>
SnapPrefix == <<"s", "n", "a", "p", ":">>

LineBashArch == Bash \o <<":">> \o Amd64 \o <<" ", "5", ".", "0", "\n">>
LineLibArchDev == <<"l", "i", "b", ":">> \o Amd64 \o <<"-", "d", "e", "v", "\t", "1", "\n">>
LineSnapCore == SnapPrefix \o Core \o <<" ">> \o Stable \o <<" ", "1", "\n">>
LineSnapLxd == <<" ">> \o SnapPrefix \o Lxd \o <<" ">> \o Edge \o <<" ", " ", "7">>
LineBlank == <<"\n">>
LineSnapNoVersion == SnapPrefix \o Core \o <<" ">> \o Stable \o <<"\n">>

ManifestLines == {LineBashArch, LineLibArchDev, LineSnapCore, LineSnapLxd,
                  LineBlank, LineSnapNoVersion}

Architectures == {Amd64}

PpaOwnerName == <<"o", "/", "p">>
PpaNoSlash == <<"o", "p">>
PpaOptions == {PpaOwnerName, PpaNoSlash}

VersionTilde == <<"0", ".", "0", "~", "1", "-", "1">>
VersionRev2 == <<"1", ".", "0", "-", "2">>
VersionRev10 == <<"1", ".", "0", "-", "1", "0">>

\* what one getPublishedBinaries call may return: the published versions
PublishedLists == {<<>>, <<VersionTilde>>, <<VersionRev10, VersionRev2>>}

\* the revisions results[0].snap.revision may hold
Revisions == {6130}

OldFileLine == Bash \o <<"\t", "4", ".", "4", "\n">>
FilesBefore == {[exists |-> FALSE, opened |-> FALSE, lines |-> <<>>],
                [exists |-> TRUE, opened |-> FALSE, lines |-> <<OldFileLine>>]}

SeqsUpTo(S, n) == UNION {[1..k -> S] : k \in 0..n}

-----------------------------------------------------------------------------
(* The program. *)

\* the pockets in another order
ARCHIVE_POCKETS_releaseFirst == <<"Release", "Updates", "Security">>

ARCHIVE_POCKETS == <<"Updates", "Security", "Release">>

NoResponse == [of |-> "none", outcome |-> "none", results |-> <<>>]

Call(call, archive, name, pocket) ==
    [call |-> call, archive |-> archive, name |-> name, pocket |-> pocket]

\* the third field of a snap line taken for its channel
ParseEntry_versionAsChannel(line) ==
    LET fields == Split(Strip(line))
    IN  IF Contains(line, SnapPrefix)
        THEN IF Len(fields) = 3
             THEN [ok |-> TRUE, kind |-> "snap",
                   name |-> Replace(fields[1], SnapPrefix, <<>>), channel |-> fields[3]]
             ELSE [ok |-> FALSE, kind |-> "snap", name |-> <<>>, channel |-> <<>>]
        ELSE IF Len(fields) = 2
             THEN [ok |-> TRUE, kind |-> "binary", name |-> fields[1], channel |-> <<>>]
             ELSE [ok |-> FALSE, kind |-> "binary", name |-> <<>>, channel |-> <<>>]

\* the body of `for line in manifest` on one line: what it appends, or that
\* the unpacking of the fields raises
ParseEntry(line) ==
    LET fields == Split(Strip(line))
    IN  IF Contains(line, SnapPrefix)
        THEN IF Len(fields) = 3
             THEN [ok |-> TRUE, kind |-> "snap",
                   name |-> Replace(fields[1], SnapPrefix, <<>>), channel |-> fields[2]]
             ELSE [ok |-> FALSE, kind |-> "snap", name |-> <<>>, channel |-> <<>>]
        ELSE IF Len(fields) = 2
             THEN [ok |-> TRUE, kind |-> "binary", name |-> fields[1], channel |-> <<>>]
             ELSE [ok |-> FALSE, kind |-> "binary", name |-> <<>>, channel |-> <<>>]

Abort(stage) == pc' = "aborted" /\ failure' = stage

Init ==
    /\ manifest \in SeqsUpTo(ManifestLines, MaxLines)
    /\ architecture \in Architectures
    /\ ppas \in SeqsUpTo(PpaOptions, MaxPpas)
    /\ file_before \in FilesBefore
    /\ file = file_before
    /\ pc = "parse"
    /\ failure = "none"
    /\ line_idx = 1
    /\ binary_package_names = <<>>
    /\ snap_package_names = <<>>
    /\ calls = <<>>
    /\ response = NoResponse
    /\ pkg_idx = 1
    /\ binary_package_name = <<>>
    /\ ppa_idx = 1
    /\ pocket_idx = 1
    /\ binary_package_versions_found_in_archive = <<>>
    /\ manifest_archive_versions = <<>>
    /\ snap_idx = 1
    /\ manifest_snapstore_versions = <<>>
    /\ snap_responses = <<>>
    /\ write_idx = 1
    /\ twin_manifest = <<>>
    /\ twin_pc = "off"
    /\ twin_idx = 1
    /\ twin_binary_package_names = <<>>
    /\ twin_snap_package_names = <<>>

\* a package name already seen is not appended again
ParseLine_skipsDuplicates ==
    /\ pc = "parse"
    /\ line_idx <= Len(manifest)
    /\ LET entry == ParseEntry(manifest[line_idx])
           seen == \E i \in 1..Len(binary_package_names) :
                       binary_package_names[i] = entry.name
       IN  IF ~entry.ok
           THEN /\ Abort("parse")
                /\ UNCHANGED <<line_idx, binary_package_names, snap_package_names>>
           ELSE /\ line_idx' = line_idx + 1
                /\ binary_package_names' =
                       IF entry.kind = "binary" /\ ~seen
                       THEN Append(binary_package_names, entry.name)
                       ELSE binary_package_names
                /\ snap_package_names' =
                       IF entry.kind = "snap"
                       THEN Append(snap_package_names, <<entry.name, entry.channel>>)
                       ELSE snap_package_names
                /\ UNCHANGED <<pc, failure>>
    /\ UNCHANGED <<manifest, input_vars, remote_vars, archive_vars, snap_vars, write_vars,
                   twin_vars>>

\* a line with the wrong number of fields is skipped
ParseLine_skipsBadLines ==
    /\ pc = "parse"
    /\ line_idx <= Len(manifest)
    /\ LET entry == ParseEntry(manifest[line_idx])
       IN  /\ line_idx' = line_idx + 1
           /\ binary_package_names' =
                  IF entry.ok /\ entry.kind = "binary"
                  THEN Append(binary_package_names, entry.name)
                  ELSE binary_package_names
           /\ snap_package_names' =
                  IF entry.ok /\ entry.kind = "snap"
                  THEN Append(snap_package_names, <<entry.name, entry.channel>>)
                  ELSE snap_package_names
           /\ UNCHANGED <<pc, failure>>
    /\ UNCHANGED <<manifest, input_vars, remote_vars, archive_vars, snap_vars, write_vars,
                   twin_vars>>

\* lines 262-269: one iteration of the parsing loop
ParseLine ==
    /\ pc = "parse"
    /\ line_idx <= Len(manifest)
    /\ LET entry == ParseEntry(manifest[line_idx])
       IN  IF ~entry.ok
           THEN /\ Abort("parse")
                /\ UNCHANGED <<line_idx, binary_package_names, snap_package_names>>
           ELSE /\ line_idx' = line_idx + 1
                /\ binary_package_names' =
                       IF entry.kind = "binary"
                       THEN Append(binary_package_names, entry.name)
                       ELSE binary_package_names
                /\ snap_package_names' =
                       IF entry.kind = "snap"
                       THEN Append(snap_package_names, <<entry.name, entry.channel>>)
                       ELSE snap_package_names
                /\ UNCHANGED <<pc, failure>>
    /\ UNCHANGED <<manifest, input_vars, remote_vars, archive_vars, snap_vars, write_vars,
                   twin_vars>>

\* the destination file is opened before the resolvers run
Login_opensFileFirst ==
    /\ pc = "parse"
    /\ line_idx > Len(manifest)
    /\ file' = [exists |-> TRUE, opened |-> TRUE, lines |-> <<>>]
    /\ \E outcome \in {"ok", "login_error", "series_error"} :
        /\ response' = [of |-> "login", outcome |-> outcome, results |-> <<>>]
        /\ calls' = calls \o <<Call("login", "", <<>>, "")>>
                          \o (IF outcome = "login_error" THEN <<>>
                              ELSE <<Call("getSeries", "", <<>>, "")>>)
        /\ IF outcome = "ok"
           THEN pc' = "package" /\ UNCHANGED failure
           ELSE Abort("archive")
    /\ pkg_idx' = 1
    /\ manifest_archive_versions' = <<>>
    /\ UNCHANGED <<manifest, line_idx, binary_package_names, snap_package_names, input_vars,
                   binary_package_name, ppa_idx, pocket_idx,
                   binary_package_versions_found_in_archive, snap_vars, write_idx,
                   twin_vars>>

\* lines 271, 125-139: the call of get_archive_versions, up to its loop
Login ==
    /\ pc = "parse"
    /\ line_idx > Len(manifest)
    /\ \E outcome \in {"ok", "login_error", "series_error"} :
        /\ response' = [of |-> "login", outcome |-> outcome, results |-> <<>>]
        /\ calls' = calls \o <<Call("login", "", <<>>, "")>>
                          \o (IF outcome = "login_error" THEN <<>>
                              ELSE <<Call("getSeries", "", <<>>, "")>>)
        /\ IF outcome = "ok"
           THEN pc' = "package" /\ UNCHANGED failure
           ELSE Abort("archive")
    /\ pkg_idx' = 1
    /\ manifest_archive_versions' = <<>>
    /\ UNCHANGED <<manifest, line_idx, binary_package_names, snap_package_names, input_vars,
                   binary_package_name, ppa_idx, pocket_idx,
                   binary_package_versions_found_in_archive, snap_vars, write_vars,
                   twin_vars>>

\* lines 140-143: the head of an iteration of the package loop
NextPackage ==
    /\ pc = "package"
    /\ pkg_idx <= Len(binary_package_names)
    /\ binary_package_name' =
           Replace(binary_package_names[pkg_idx], <<":">> \o architecture, <<>>)
    /\ binary_package_versions_found_in_archive' = <<>>
    /\ ppa_idx' = 1
    /\ pocket_idx' = 1
    /\ pc' = "query"
    /\ UNCHANGED <<manifest, failure, line_idx, binary_package_names, snap_package_names,
                   input_vars, remote_vars, pkg_idx, manifest_archive_versions, snap_vars,
                   write_vars, twin_vars>>

\* a PPA lookup or query that errors is skipped
QueryPPA_skipsErrors ==
    /\ pc = "query"
    /\ ppa_idx <= Len(ppas)
    /\ LET ppa == ppas[ppa_idx]
           lookup == Call("getPPAByName", ppa, <<>>, "")
           query == Call("getPublishedBinaries", ppa, binary_package_name, "Release")
       IN  IF Len(SplitOn(ppa, "/")) # 2
           THEN /\ Abort("archive")
                /\ UNCHANGED <<remote_vars, ppa_idx,
                               binary_package_versions_found_in_archive>>
           ELSE \/ /\ response' = [of |-> "ppa", outcome |-> "lookup_error",
                                   results |-> <<>>]
                   /\ calls' = Append(calls, lookup)
                   /\ ppa_idx' = ppa_idx + 1
                   /\ UNCHANGED <<pc, failure, binary_package_versions_found_in_archive>>
                \/ /\ response' = [of |-> "ppa", outcome |-> "query_error",
                                   results |-> <<>>]
                   /\ calls' = calls \o <<lookup, query>>
                   /\ ppa_idx' = ppa_idx + 1
                   /\ UNCHANGED <<pc, failure, binary_package_versions_found_in_archive>>
                \/ \E ppa_binaries \in PublishedLists :
                   /\ response' = [of |-> "ppa", outcome |-> "ok",
                                   results |-> ppa_binaries]
                   /\ calls' = calls \o <<lookup, query>>
                   /\ binary_package_versions_found_in_archive' =
                          binary_package_versions_found_in_archive \o ppa_binaries
                   /\ ppa_idx' = ppa_idx + 1
                   /\ UNCHANGED <<pc, failure>>
    /\ UNCHANGED <<manifest, line_idx, binary_package_names, snap_package_names, input_vars,
                   pkg_idx, binary_package_name, pocket_idx, manifest_archive_versions,
                   snap_vars, write_vars, twin_vars>>

\* lines 145-158: one iteration of `for ppa in ppas`
QueryPPA ==
    /\ pc = "query"
    /\ ppa_idx <= Len(ppas)
    /\ LET ppa == ppas[ppa_idx]
           lookup == Call("getPPAByName", ppa, <<>>, "")
           query == Call("getPublishedBinaries", ppa, binary_package_name, "Release")
       IN  IF Len(SplitOn(ppa, "/")) # 2
           THEN /\ Abort("archive")
                /\ UNCHANGED <<remote_vars, ppa_idx,
                               binary_package_versions_found_in_archive>>
           ELSE \/ /\ response' = [of |-> "ppa", outcome |-> "lookup_error",
                                   results |-> <<>>]
                   /\ calls' = Append(calls, lookup)
                   /\ Abort("archive")
                   /\ UNCHANGED <<ppa_idx, binary_package_versions_found_in_archive>>
                \/ /\ response' = [of |-> "ppa", outcome |-> "query_error",
                                   results |-> <<>>]
                   /\ calls' = calls \o <<lookup, query>>
                   /\ Abort("archive")
                   /\ UNCHANGED <<ppa_idx, binary_package_versions_found_in_archive>>
                \/ \E ppa_binaries \in PublishedLists :
                   /\ response' = [of |-> "ppa", outcome |-> "ok",
                                   results |-> ppa_binaries]
                   /\ calls' = calls \o <<lookup, query>>
                   /\ binary_package_versions_found_in_archive' =
                          binary_package_versions_found_in_archive \o ppa_binaries
                   /\ ppa_idx' = ppa_idx + 1
                   /\ UNCHANGED <<pc, failure>>
    /\ UNCHANGED <<manifest, line_idx, binary_package_names, snap_package_names, input_vars,
                   pkg_idx, binary_package_name, pocket_idx, manifest_archive_versions,
                   snap_vars, write_vars, twin_vars>>

\* lines 160-173: one iteration of `for pocket in ARCHIVE_POCKETS`
QueryPocket ==
    /\ pc = "query"
    /\ ppa_idx > Len(ppas)
    /\ pocket_idx <= Len(ARCHIVE_POCKETS)
    /\ calls' = Append(calls, Call("getPublishedBinaries", "main", binary_package_name,
                                   ARCHIVE_POCKETS[pocket_idx]))
    /\ \/ /\ response' = [of |-> "pocket", outcome |-> "query_error", results |-> <<>>]
          /\ Abort("archive")
          /\ UNCHANGED <<pocket_idx, binary_package_versions_found_in_archive>>
       \/ \E archive_binaries \in PublishedLists :
          /\ response' = [of |-> "pocket", outcome |-> "ok", results |-> archive_binaries]
          /\ binary_package_versions_found_in_archive' =
                 binary_package_versions_found_in_archive \o archive_binaries
          /\ pocket_idx' = pocket_idx + 1
          /\ UNCHANGED <<pc, failure>>
    /\ UNCHANGED <<manifest, line_idx, binary_package_names, snap_package_names, input_vars,
                   pkg_idx, binary_package_name, ppa_idx, manifest_archive_versions,
                   snap_vars, write_vars, twin_vars>>

\* lines 174-181: the end of an iteration of the package loop
AppendMaxVersion ==
    /\ pc = "query"
    /\ ppa_idx > Len(ppas)
    /\ pocket_idx > Len(ARCHIVE_POCKETS)
    /\ manifest_archive_versions' =
           Append(manifest_archive_versions,
                  <<binary_package_name,
                    MaxVersion(binary_package_versions_found_in_archive)>>)
    /\ pkg_idx' = pkg_idx + 1
    /\ pc' = "package"
    /\ UNCHANGED <<manifest, failure, line_idx, binary_package_names, snap_package_names,
                   input_vars, remote_vars, binary_package_name, ppa_idx, pocket_idx,
                   binary_package_versions_found_in_archive, snap_vars, write_vars,
                   twin_vars>>

\* lines 182, 272, 33: get_archive_versions returns, _get_snapstore_versions starts
ReturnArchiveVersions ==
    /\ pc = "package"
    /\ pkg_idx > Len(binary_package_names)
    /\ pc' = "snap"
    /\ snap_idx' = 1
    /\ manifest_snapstore_versions' = <<>>
    /\ snap_responses' = <<>>
    /\ UNCHANGED <<manifest, failure, line_idx, binary_package_names, snap_package_names,
                   input_vars, remote_vars, archive_vars, write_vars, twin_vars>>

\* a response that is not ok ends the loop instead of continuing it
SnapLookup_stopsOnNotOk ==
    /\ pc = "snap"
    /\ snap_idx <= Len(snap_package_names)
    /\ LET snap_name == snap_package_names[snap_idx][1]
           snap_channel == snap_package_names[snap_idx][2]
       IN  /\ calls' = Append(calls, Call("snap_refresh", "store", snap_name, snap_channel))
           /\ \/ /\ response' = [of |-> "snap", outcome |-> "raises", results |-> <<>>]
                 /\ Abort("snap")
                 /\ UNCHANGED <<snap_idx, manifest_snapstore_versions>>
              \/ /\ response' = [of |-> "snap", outcome |-> "not_ok", results |-> <<>>]
                 /\ snap_idx' = Len(snap_package_names) + 1
                 /\ UNCHANGED <<pc, failure, manifest_snapstore_versions>>
              \/ /\ response' = [of |-> "snap", outcome |-> "ok_no_revision",
                                 results |-> <<>>]
                 /\ Abort("snap")
                 /\ UNCHANGED <<snap_idx, manifest_snapstore_versions>>
              \/ \E revision \in Revisions :
                 /\ response' = [of |-> "snap", outcome |-> "ok", results |-> <<revision>>]
                 /\ manifest_snapstore_versions' =
                        Append(manifest_snapstore_versions,
                               <<snap_name, snap_channel, revision>>)
                 /\ snap_idx' = snap_idx + 1
                 /\ UNCHANGED <<pc, failure>>
    /\ snap_responses' = Append(snap_responses, response')
    /\ UNCHANGED <<manifest, line_idx, binary_package_names, snap_package_names, input_vars,
                   archive_vars, write_vars, twin_vars>>

\* lines 40-107: one iteration of the snap loop.  The request may raise, the
\* response may be not ok, or ok without results[0].snap.revision, or ok with it.
SnapLookup ==
    /\ pc = "snap"
    /\ snap_idx <= Len(snap_package_names)
    /\ LET snap_name == snap_package_names[snap_idx][1]
           snap_channel == snap_package_names[snap_idx][2]
       IN  /\ calls' = Append(calls, Call("snap_refresh", "store", snap_name, snap_channel))
           /\ \/ /\ response' = [of |-> "snap", outcome |-> "raises", results |-> <<>>]
                 /\ Abort("snap")
                 /\ UNCHANGED <<snap_idx, manifest_snapstore_versions>>
              \/ /\ response' = [of |-> "snap", outcome |-> "not_ok", results |-> <<>>]
                 /\ snap_idx' = snap_idx + 1
                 /\ UNCHANGED <<pc, failure, manifest_snapstore_versions>>
              \/ /\ response' = [of |-> "snap", outcome |-> "ok_no_revision",
                                 results |-> <<>>]
                 /\ Abort("snap")
                 /\ UNCHANGED <<snap_idx, manifest_snapstore_versions>>
              \/ \E revision \in Revisions :
                 /\ response' = [of |-> "snap", outcome |-> "ok", results |-> <<revision>>]
                 /\ manifest_snapstore_versions' =
                        Append(manifest_snapstore_versions,
                               <<snap_name, snap_channel, revision>>)
                 /\ snap_idx' = snap_idx + 1
                 /\ UNCHANGED <<pc, failure>>
    /\ snap_responses' = Append(snap_responses, response')
    /\ UNCHANGED <<manifest, line_idx, binary_package_names, snap_package_names, input_vars,
                   archive_vars, write_vars, twin_vars>>

\* lines 109, 274: _get_snapstore_versions returns and the file is opened
\* for writing, which truncates it or raises when the path is not writable
OpenFile ==
    /\ pc = "snap"
    /\ snap_idx > Len(snap_package_names)
    /\ \/ /\ file' = [exists |-> TRUE, opened |-> TRUE, lines |-> <<>>]
          /\ pc' = "write"
          /\ UNCHANGED failure
       \/ /\ Abort("open")
          /\ UNCHANGED file
    /\ write_idx' = 1
    /\ UNCHANGED <<manifest, line_idx, binary_package_names, snap_package_names, input_vars,
                   remote_vars, archive_vars, snap_vars, twin_vars>>

BinaryLine(entry) == entry[1] \o <<"\t">> \o entry[2] \o <<"\n">>

SnapLine(entry) ==
    SnapPrefix \o entry[1] \o <<"\t">> \o entry[2] \o <<"\t">> \o IntToStr(entry[3])
               \o <<"\n">>

\* lines 275-276: one write of the first loop
WriteBinaryLine ==
    /\ pc = "write"
    /\ write_idx <= Len(manifest_archive_versions)
    /\ file' = [file EXCEPT !.lines =
                    Append(@, BinaryLine(manifest_archive_versions[write_idx]))]
    /\ write_idx' = write_idx + 1
    /\ UNCHANGED <<parse_vars, input_vars, remote_vars, archive_vars, snap_vars, twin_vars>>

\* lines 277-278: one write of the second loop
WriteSnapLine ==
    /\ pc = "write"
    /\ write_idx > Len(manifest_archive_versions)
    /\ write_idx <= Len(manifest_archive_versions) + Len(manifest_snapstore_versions)
    /\ file' = [file EXCEPT !.lines =
                    Append(@, SnapLine(manifest_snapstore_versions[
                                           write_idx - Len(manifest_archive_versions)]))]
    /\ write_idx' = write_idx + 1
    /\ UNCHANGED <<parse_vars, input_vars, remote_vars, archive_vars, snap_vars, twin_vars>>

\* lines 274, 279: the with block closes the file, the command returns
CloseFile ==
    /\ pc = "write"
    /\ write_idx > Len(manifest_archive_versions) + Len(manifest_snapstore_versions)
    /\ file' = [file EXCEPT !.opened = FALSE]
    /\ pc' = "done"
    /\ UNCHANGED <<manifest, failure, line_idx, binary_package_names, snap_package_names,
                   input_vars, remote_vars, archive_vars, snap_vars, write_idx, twin_vars>>

Next ==
    \/ ParseLine
    \/ Login
    \/ NextPackage
    \/ QueryPPA
    \/ QueryPocket
    \/ AppendMaxVersion
    \/ ReturnArchiveVersions
    \/ SnapLookup
    \/ OpenFile
    \/ WriteBinaryLine
    \/ WriteSnapLine
    \/ CloseFile

Spec == Init /\ [][Next]_vars

-----------------------------------------------------------------------------
(* A second run of the parsing loop, on a manifest that differs from the   *)
(* first one only in the version field of each line.                       *)

MaxTwinLines == 2

TwinPrefixes == {Bash \o <<" ">>,
                 Bash \o <<" ">> \o Stable \o <<" ">>,
                 SnapPrefix \o Core \o <<" ">> \o Stable \o <<" ">>,
                 SnapPrefix \o Core \o <<" ">>}

TwinVersions == {<<"5", ".", "0">>, <<"5", ".", "1">>, SnapPrefix \o <<"5">>}

InitTwin ==
    /\ \E prefixes \in SeqsUpTo(TwinPrefixes, MaxTwinLines) :
       \E versions, twin_versions \in [1..Len(prefixes) -> TwinVersions] :
           /\ manifest = [i \in 1..Len(prefixes) |-> prefixes[i] \o versions[i] \o <<"\n">>]
           /\ twin_manifest =
                  [i \in 1..Len(prefixes) |-> prefixes[i] \o twin_versions[i] \o <<"\n">>]
    /\ architecture = Amd64
    /\ ppas = <<>>
    /\ file_before = [exists |-> FALSE, opened |-> FALSE, lines |-> <<>>]
    /\ file = file_before
    /\ pc = "parse"
    /\ failure = "none"
    /\ line_idx = 1
    /\ binary_package_names = <<>>
    /\ snap_package_names = <<>>
    /\ calls = <<>>
    /\ response = NoResponse
    /\ pkg_idx = 1
    /\ binary_package_name = <<>>
    /\ ppa_idx = 1
    /\ pocket_idx = 1
    /\ binary_package_versions_found_in_archive = <<>>
    /\ manifest_archive_versions = <<>>
    /\ snap_idx = 1
    /\ manifest_snapstore_versions = <<>>
    /\ snap_responses = <<>>
    /\ write_idx = 1
    /\ twin_pc = "parse"
    /\ twin_idx = 1
    /\ twin_binary_package_names = <<>>
    /\ twin_snap_package_names = <<>>

\* lines 262-269, in the second run
TwinParseLine ==
    /\ twin_pc = "parse"
    /\ twin_idx <= Len(twin_manifest)
    /\ LET entry == ParseEntry(twin_manifest[twin_idx])
       IN  IF ~entry.ok
           THEN /\ twin_pc' = "aborted"
                /\ UNCHANGED <<twin_idx, twin_binary_package_names,
                               twin_snap_package_names>>
           ELSE /\ twin_idx' = twin_idx + 1
                /\ twin_binary_package_names' =
                       IF entry.kind = "binary"
                       THEN Append(twin_binary_package_names, entry.name)
                       ELSE twin_binary_package_names
                /\ twin_snap_package_names' =
                       IF entry.kind = "snap"
                       THEN Append(twin_snap_package_names, <<entry.name, entry.channel>>)
                       ELSE twin_snap_package_names
                /\ UNCHANGED twin_pc
    /\ UNCHANGED <<twin_manifest, parse_vars, input_vars, remote_vars, archive_vars,
                   snap_vars, write_vars>>

NextTwin == ParseLine \/ TwinParseLine

SpecTwin == InitTwin /\ [][NextTwin]_vars

-----------------------------------------------------------------------------
(* What the properties below speak of. *)

IsPrefix(s, t) == Len(s) <= Len(t) /\ SubSeq(t, 1, Len(s)) = s

EndsWith(s, suffix) ==
    Len(suffix) <= Len(s) /\ SubSeq(s, Len(s) - Len(suffix) + 1, Len(s)) = suffix

\* s without a trailing suffix, and s itself when it does not end with it
WithoutTrailing(s, suffix) ==
    IF EndsWith(s, suffix) THEN SubSeq(s, 1, Len(s) - Len(suffix)) ELSE s

ArchSuffix == <<":">> \o architecture

\* a manifest line that does not split into the expected number of fields
BadLine(line) ==
    Len(Split(Strip(line))) # (IF Contains(line, SnapPrefix) THEN 3 ELSE 2)

\* the entries of one kind among the lines, in the order of the lines
RECURSIVE EntriesOf(_, _)
EntriesOf(lines, kind) ==
    IF lines = <<>> THEN <<>>
    ELSE (IF ParseEntry(Head(lines)).kind = kind THEN <<ParseEntry(Head(lines))>> ELSE <<>>)
         \o EntriesOf(Tail(lines), kind)

\* the snaps answered with ok and a revision, in the order of the requests
RECURSIVE ResolvedSnaps(_, _)
ResolvedSnaps(snaps, responses) ==
    IF snaps = <<>> \/ responses = <<>> THEN <<>>
    ELSE (IF Head(responses).outcome = "ok"
          THEN <<<<Head(snaps).name, Head(snaps).channel, Head(responses).results[1]>>>>
          ELSE <<>>)
         \o ResolvedSnaps(Tail(snaps), Tail(responses))

IsQuery(c) == c.call = "getPublishedBinaries"

Queries == SelectSeq(calls, IsQuery)

\* the queries of one package: the PPAs in the given order, pocket Release,
\* then the main archive in Updates, Security, Release
PackageQueries(name) ==
    [i \in 1..Len(ppas) |-> Call("getPublishedBinaries", ppas[i], name, "Release")]
    \o <<Call("getPublishedBinaries", "main", name, "Updates"),
         Call("getPublishedBinaries", "main", name, "Security"),
         Call("getPublishedBinaries", "main", name, "Release")>>

RECURSIVE ExpectedQueries(_)
ExpectedQueries(names) ==
    IF names = <<>> THEN <<>>
    ELSE PackageQueries(Replace(Head(names), ArchSuffix, <<>>))
         \o ExpectedQueries(Tail(names))

ArchiveReturned == pc \in {"snap", "write", "done"} \/ failure \in {"snap", "open"}

SnapsReturned == pc \in {"write", "done"} \/ failure = "open"

\* get_archive_versions has just appended the maximum of a package, whose
\* candidates are still in binary_package_versions_found_in_archive
JustAppended == pc = "package" /\ manifest_archive_versions # <<>>

LastMaxVersion == manifest_archive_versions[Len(manifest_archive_versions)][2]

-----------------------------------------------------------------------------
(* The properties. *)

\* C1: when the candidates of a package are not empty, the emitted
\* max_version is one of them and none of them is greater in Debian version
\* order; when they are empty, it is "0.0.0".
C1_MaxOfCandidates ==
    JustAppended =>
        LET candidates == binary_package_versions_found_in_archive
        IN  IF candidates = <<>>
            THEN LastMaxVersion = NothingPublished
            ELSE /\ \E i \in 1..Len(candidates) : candidates[i] = LastMaxVersion
                 /\ \A i \in 1..Len(candidates) :
                        version_compare(candidates[i], LastMaxVersion) <= 0

\* C2: the destination file is opened or changed only after both resolvers
\* have returned, and a run that parsing, archive resolution or snap
\* resolution ends leaves the file as it was before the run.
C2_NoOutputBeforeResolversReturn ==
    /\ (file.opened \/ file # file_before) => (ArchiveReturned /\ SnapsReturned)
    /\ (pc = "aborted" /\ failure \in {"parse", "archive", "snap"}) =>
           (file = file_before /\ ~file.opened)

C2_Witness ==
    /\ pc = "aborted"
    /\ failure = "snap"
    /\ manifest_archive_versions # <<>>
    /\ file_before.exists
    /\ file = file_before

\* C3: a response that is not ok records nothing and does not stop the loop:
\* the loop is never ended by such a response, every snap is looked up, the
\* result holds exactly the snaps answered with ok and a revision, in order,
\* and each of them has its line in the output file.
C3_NotOkSnapIsSkipped ==
    LET resolved == ResolvedSnaps(
                        [i \in 1..Len(snap_package_names) |->
                            [name |-> snap_package_names[i][1],
                             channel |-> snap_package_names[i][2]]],
                        snap_responses)
    IN  /\ failure = "snap" => snap_responses[Len(snap_responses)].outcome # "not_ok"
        /\ (pc = "snap" \/ SnapsReturned) =>
               /\ Len(snap_responses) = snap_idx - 1
               /\ manifest_snapstore_versions = resolved
        /\ SnapsReturned => Len(snap_responses) = Len(snap_package_names)
        /\ pc = "done" =>
               \A i \in 1..Len(resolved) :
                   \E k \in 1..Len(file.lines) : file.lines[k] = SnapLine(resolved[i])

C3_Witness ==
    /\ pc = "done"
    /\ Len(snap_responses) = 2
    /\ snap_responses[1].outcome = "not_ok"
    /\ snap_responses[2].outcome = "ok"
    /\ Len(file.lines) = 1

\* C4: an error during one snap lookup (the request raises, or the response
\* is ok without results[0].snap.revision) does not abort the run.
C4_SnapLookupErrorIsSwallowed ==
    ~(/\ pc = "aborted"
      /\ response.of = "snap"
      /\ response.outcome \in {"raises", "ok_no_revision"})

C6_OutputOrder ==
    pc = "done" =>
        LET binaries == EntriesOf(manifest, "binary")
            resolved == ResolvedSnaps(EntriesOf(manifest, "snap"), snap_responses)
        IN  /\ Len(manifest_archive_versions) = Len(binaries)
            /\ Len(file.lines) = Len(binaries) + Len(resolved)
            /\ \A j \in 1..Len(binaries) :
                   /\ manifest_archive_versions[j][1] =
                          Replace(binaries[j].name, ArchSuffix, <<>>)
                   /\ file.lines[j] = BinaryLine(manifest_archive_versions[j])
            /\ \A j \in 1..Len(resolved) :
                   file.lines[Len(binaries) + j] = SnapLine(resolved[j])

C6_Witness ==
    /\ pc = "done"
    /\ Len(manifest) = 2
    /\ ParseEntry(manifest[1]).kind = "snap"
    /\ ParseEntry(manifest[2]).kind = "binary"
    /\ Len(file.lines) = 2

\* C7: when some line of the manifest does not split into the expected
\* number of fields, no remote call is ever issued: the run is still parsing
\* or was aborted by the parser.
C7_BadLineAbortsBeforeRemoteCalls ==
    (\E i \in 1..Len(manifest) : BadLine(manifest[i])) =>
        /\ calls = <<>>
        /\ pc \in {"parse", "aborted"}
        /\ pc = "aborted" => failure = "parse"

C7_Witness ==
    /\ pc = "aborted"
    /\ failure = "parse"
    /\ line_idx = 2
    /\ binary_package_names # <<>>
    /\ calls = <<>>

\* C8: the name queried and emitted is the input name without a trailing
\* ":{architecture}", and the input name itself when it does not end with it.
C8_OnlyTrailingSuffixStripped ==
    pc = "query" =>
        binary_package_name = WithoutTrailing(binary_package_names[pkg_idx], ArchSuffix)

\* the version field of a line of the two manifests: its last field
VersionField(line) == Split(Strip(line))[Len(Split(Strip(line)))]

ParseEnded == pc = "aborted" \/ line_idx > Len(manifest)

TwinParseEnded == twin_pc = "aborted" \/ twin_idx > Len(twin_manifest)

SameParse ==
    /\ pc = "aborted" <=> twin_pc = "aborted"
    /\ pc # "aborted" =>
           /\ binary_package_names = twin_binary_package_names
           /\ snap_package_names = twin_snap_package_names

\* C9 as claimed: two manifests that differ only in their version fields
\* are both rejected or both accepted, with the same two lists.
C9_VersionFieldIgnored == (ParseEnded /\ TwinParseEnded) => SameParse

\* C9 as amended: the same, for two manifests none of whose version fields
\* contains "snap:".
C9_VersionFieldWithoutSnapIgnored ==
    (/\ ParseEnded
     /\ TwinParseEnded
     /\ \A i \in 1..Len(manifest) :
            /\ ~Contains(VersionField(manifest[i]), SnapPrefix)
            /\ ~Contains(VersionField(twin_manifest[i]), SnapPrefix))
    => SameParse

C9_Witness ==
    /\ ParseEnded
    /\ TwinParseEnded
    /\ pc # "aborted"
    /\ Len(manifest) = 2
    /\ \A i \in 1..Len(manifest) : manifest[i] # twin_manifest[i]
    /\ binary_package_names = twin_binary_package_names
    /\ snap_package_names = twin_snap_package_names
    /\ binary_package_names # <<>>
    /\ snap_package_names # <<>>

====
